---- MODULE Spec2Model ----
(***************************************************************************)
(* Model of rustfmt's diagnostic session (src/syntux/session.rs):          *)
(* ParseSess, its two emitters (SilentEmitter and                          *)
(* SilentOnIgnoredFilesEmitter) and the operations a caller can perform    *)
(* on a session.                                                           *)
(*                                                                         *)
(* The rustc Handler (syntax::errors::Handler) is an external library.     *)
(* It is modelled by what session.rs relies on: emit_diagnostic forwards   *)
(* the diagnostic to the handler's emitter and counts it when it is an     *)
(* error, has_errors() is err_count > 0 and reset_err_count() zeroes the   *)
(* count.                                                                  *)
(***************************************************************************)
EXTENDS Integers, Sequences, FiniteSets, TLC

\* ------------------------------------------------------------------ bounds
\* Number of caller-visible operations recorded in one session.
MaxOps == 3
\* Longest deferred batch handed to emit_diagnostics.
MaxBatch == 2
\* Number of operations performed on the two sessions of SpecTwo.
MaxPairOps == 3
\* Number of keys in the configuration document.
MaxDocKeys == 1
\* Number of override_value calls in one run.
MaxOverrides == 2

\* ------------------------------------------------------------ value domains
\* Real on-disk paths a span can lie in.
Paths == {"src/a.rs", "gen/b.rs"}

\* crate::FileName values handed to ignore_file: a real path or standard input.
Stdin == "<stdin>"
FileNames == Paths \cup {Stdin}

\* Where a diagnostic's primary span lies: nowhere (no primary span), in a
\* file that is not a real path (macro expansion, anonymous source), or in a
\* real path.
NoSpan == "<no span>"
NotReal == "<anon>"
Locations == {NoSpan, NotReal} \cup Paths

Levels == {"error", "warning"}

Diagnostic == [loc : Locations, level : Levels]

\* The ignore set is a set of glob patterns; Globbed(p) is the set of paths
\* the pattern p matches.
Patterns == {"gen/*"}
Globbed(p) == IF p = "gen/*" THEN {"gen/b.rs"} ELSE {p} \cap Paths

\* ErrorEmission
Silence == "Silence"
Default == "Default"
ErrorEmission == {Silence, Default}

\* ------------------------------------------------------------------- state
VARIABLES
    emitter,            \* emitter of parse_sess.span_diagnostic: Silence or Default
    ignore_path_set,    \* ParseSess.ignore_path_set (shared with the emitter)
    has_non_ignorable_parser_errors,  \* SilentOnIgnoredFilesEmitter field
    can_reset,          \* the shared Rc<RefCell<bool>>
    err_count,          \* the handler's error count
    sink,               \* what EmitterWriter::stderr has written, in order
    pc,                 \* "idle", or "emitting" inside emit_diagnostics
    pending,            \* the part of the batch emit_diagnostics has not emitted yet
    call,               \* history: the emit_diagnostics call in progress (batch, state before)
    policy,             \* history: the ErrorEmission the session was constructed with
    log                 \* history: the operations performed so far, in order

\* Two sessions side by side (specification SpecTwo).
VARIABLES
    sessions,           \* session id -> the session, a value shaped like State
    actor,              \* history: the session the last operation was called on
    pair_ops            \* history: number of operations performed on the two sessions

\* Configuration (src/config.rs, specification SpecConfig).
VARIABLES
    document,           \* the text handed to from_toml, as its TOML parse
    parsed,             \* the ParsedConfig decoded from it (every field an Option)
    config,             \* the Config
    cpc,                \* "start", "loaded", or "panicked"
    panic_msg,          \* the message of the panic that ended the run
    applied,            \* history: the override_value calls made, in order
    printed,            \* what print_docs wrote to stdout, line by line
    tactic              \* the last Density::to_list_tactic call and its result

sess == <<emitter, has_non_ignorable_parser_errors, can_reset, err_count, sink>>
oneVars == <<emitter, ignore_path_set, has_non_ignorable_parser_errors, can_reset,
             err_count, sink, pc, pending, call, policy, log>>
pairVars == <<sessions, actor, pair_ops>>
cfgVars == <<document, parsed, config, cpc, panic_msg, applied, printed, tactic>>
\* What the operations of the single session of Spec leave alone.
elsewhere == <<pairVars, cfgVars>>
vars == <<oneVars, pairVars, cfgVars>>

\* A session as one value: the handler's emitter and error count, the
\* emitter's fields (its ignore set and its sink among them) and the shared flag.
State == [emitter |-> emitter,
          ignore_path_set |-> ignore_path_set,
          has_non_ignorable_parser_errors |-> has_non_ignorable_parser_errors,
          can_reset |-> can_reset,
          err_count |-> err_count,
          sink |-> sink]

\* ----------------------------------------------------------------- helpers
\* IgnorePathSet::is_match on a crate::FileName.
is_match(set, file_name) ==
    /\ file_name # Stdin
    /\ \E p \in set : file_name \in Globbed(p)

\* db.span.primary_span() is Some and span_to_filename gives FileName::Real.
IsRealSpan(d) == d.loc \in Paths

\* Diagnostic::is_error
is_error(d) == d.level = "error"

\* Variant: the silent emitter writes the diagnostic out.
SilentEmitter_Writes(st, d) == [st EXCEPT !.sink = Append(@, d)]

\* SilentEmitter::emit_diagnostic: discards the diagnostic.
SilentEmitter_emit_diagnostic(st, d) == st

\* Variant: the ignored-file branch sets can_reset without consulting
\* has_non_ignorable_parser_errors.
Emitter_NoLatch(st, d) ==
    IF IsRealSpan(d) /\ is_match(st.ignore_path_set, d.loc)
    THEN [st EXCEPT !.can_reset = TRUE]
    ELSE [st EXCEPT !.has_non_ignorable_parser_errors = TRUE,
                    !.can_reset = FALSE,
                    !.sink = Append(@, d)]

\* Variant: a non-ignorable diagnostic is not remembered.
Emitter_NoRecord(st, d) ==
    IF IsRealSpan(d) /\ is_match(st.ignore_path_set, d.loc)
    THEN IF ~st.has_non_ignorable_parser_errors
         THEN [st EXCEPT !.can_reset = TRUE]
         ELSE st
    ELSE [st EXCEPT !.can_reset = FALSE,
                    !.sink = Append(@, d)]

\* Variant: a non-ignorable diagnostic does not clear can_reset.
Emitter_NoClear(st, d) ==
    IF IsRealSpan(d) /\ is_match(st.ignore_path_set, d.loc)
    THEN IF ~st.has_non_ignorable_parser_errors
         THEN [st EXCEPT !.can_reset = TRUE]
         ELSE st
    ELSE [st EXCEPT !.has_non_ignorable_parser_errors = TRUE,
                    !.sink = Append(@, d)]

\* Variant: the test of has_non_ignorable_parser_errors is inverted.
Emitter_Inverted(st, d) ==
    IF IsRealSpan(d) /\ is_match(st.ignore_path_set, d.loc)
    THEN IF st.has_non_ignorable_parser_errors
         THEN [st EXCEPT !.can_reset = TRUE]
         ELSE st
    ELSE [st EXCEPT !.has_non_ignorable_parser_errors = TRUE,
                    !.can_reset = FALSE,
                    !.sink = Append(@, d)]

\* Variant: the ignored-file branch does not return and falls through to the
\* emitting code.
Emitter_NoReturn(st, d) ==
    [st EXCEPT !.has_non_ignorable_parser_errors = TRUE,
               !.can_reset = FALSE,
               !.sink = Append(@, d)]

\* Variant: a diagnostic without a primary span is dropped like one of an
\* ignored file.
Emitter_NoSpanIgnored(st, d) ==
    IF d.loc = NoSpan \/ (IsRealSpan(d) /\ is_match(st.ignore_path_set, d.loc))
    THEN IF ~st.has_non_ignorable_parser_errors
         THEN [st EXCEPT !.can_reset = TRUE]
         ELSE st
    ELSE [st EXCEPT !.has_non_ignorable_parser_errors = TRUE,
                    !.can_reset = FALSE,
                    !.sink = Append(@, d)]

\* SilentOnIgnoredFilesEmitter::emit_diagnostic
SilentOnIgnoredFilesEmitter_emit_diagnostic(st, d) ==
    IF IsRealSpan(d) /\ is_match(st.ignore_path_set, d.loc)
    THEN IF ~st.has_non_ignorable_parser_errors
         THEN [st EXCEPT !.can_reset = TRUE]
         ELSE st
    ELSE [st EXCEPT !.has_non_ignorable_parser_errors = TRUE,
                    !.can_reset = FALSE,
                    !.sink = Append(@, d)]

\* Handler::emit_diagnostic as session.rs uses it: the active emitter gets the
\* diagnostic, and an error is counted.
Handler_emit_diagnostic(st, d) ==
    LET emitted == IF st.emitter = Silence
                   THEN SilentEmitter_emit_diagnostic(st, d)
                   ELSE SilentOnIgnoredFilesEmitter_emit_diagnostic(st, d)
    IN  IF is_error(d)
        THEN [emitted EXCEPT !.err_count = @ + 1]
        ELSE emitted

\* ParseSess::can_reset_errors
can_reset_errors == can_reset

\* ParseSess::has_errors
has_errors == err_count > 0

\* ParseSess::ignore_file
ignore_file(path) == is_match(ignore_path_set, path)

\* -------------------------------------------------------------- history log
NoDiag == [loc |-> NoSpan, level |-> "none"]
LogEntry(op, d, em, flag) ==
    [op |-> op, d |-> d, emitter |-> em, flag |-> flag]

\* No emit_diagnostics call is in progress.
NoCall == [batch |-> <<>>, pre |-> <<>>]

Store(st) ==
    /\ emitter' = st.emitter
    /\ has_non_ignorable_parser_errors' = st.has_non_ignorable_parser_errors
    /\ can_reset' = st.can_reset
    /\ err_count' = st.err_count
    /\ sink' = st.sink

\* Handler::reset_err_count
Handler_reset_err_count(st) == [st EXCEPT !.err_count = 0]

\* Handler::with_emitter(true, None, silent_emitter()) put in place of the
\* session's handler: a silent emitter and a handler that has counted nothing.
silent_handler(st) == [st EXCEPT !.emitter = Silence, !.err_count = 0]

\* The specifications of the sessions load no configuration.
NoConfigRun ==
    /\ document = <<>>
    /\ parsed = <<>>
    /\ config = <<>>
    /\ cpc = "start"
    /\ panic_msg = ""
    /\ applied = <<>>
    /\ printed = <<>>
    /\ tactic = <<>>

\* Specification Spec has no second session.
NoPair ==
    /\ sessions = <<>>
    /\ actor = 0
    /\ pair_ops = 0
    /\ NoConfigRun

\* -------------------------------------------------------------------- Init
\* Variant: the shared flag starts out true.
Init_CanResetTrue ==
    /\ policy \in ErrorEmission
    /\ emitter = policy
    /\ ignore_path_set \in SUBSET Patterns
    /\ has_non_ignorable_parser_errors = FALSE
    /\ can_reset = TRUE
    /\ err_count = 0
    /\ sink = <<>>
    /\ pc = "idle"
    /\ pending = <<>>
    /\ call = NoCall
    /\ log = <<>>
    /\ NoPair

\* ParseSess::new(error_emission, ignore_path_set)
Init ==
    /\ policy \in ErrorEmission
    /\ emitter = policy
    /\ ignore_path_set \in SUBSET Patterns
    /\ has_non_ignorable_parser_errors = FALSE
    /\ can_reset = FALSE
    /\ err_count = 0
    /\ sink = <<>>
    /\ pc = "idle"
    /\ pending = <<>>
    /\ call = NoCall
    /\ log = <<>>
    /\ NoPair

\* ----------------------------------------------------------------- actions
\* The parser reports one diagnostic through inner().span_diagnostic.
Diagnose(d) ==
    /\ pc = "idle"
    /\ Len(log) < MaxOps
    /\ Store(Handler_emit_diagnostic(State, d))
    /\ log' = Append(log, LogEntry("diagnostic", d, emitter, FALSE))
    /\ UNCHANGED <<ignore_path_set, pc, pending, call, policy>>
    /\ UNCHANGED elsewhere

\* ParseSess::emit_diagnostics(diagnostics): entry of the for loop.
emit_diagnostics(batch) ==
    /\ pc = "idle"
    /\ Len(log) + Len(batch) <= MaxOps
    /\ pc' = "emitting"
    /\ pending' = batch
    /\ call' = [batch |-> batch, pre |-> State]
    /\ UNCHANGED <<sess, ignore_path_set, policy, log>>
    /\ UNCHANGED elsewhere

\* Variant: the loop takes the batch from its end.
emit_diagnostics_next_Reversed ==
    /\ pc = "emitting"
    /\ pending # <<>>
    /\ Store(Handler_emit_diagnostic(State, pending[Len(pending)]))
    /\ pending' = SubSeq(pending, 1, Len(pending) - 1)
    /\ log' = Append(log, LogEntry("diagnostic", pending[Len(pending)], emitter, FALSE))
    /\ UNCHANGED <<ignore_path_set, pc, call, policy>>
    /\ UNCHANGED elsewhere

\* One iteration of the for loop of emit_diagnostics.
emit_diagnostics_next ==
    /\ pc = "emitting"
    /\ pending # <<>>
    /\ Store(Handler_emit_diagnostic(State, Head(pending)))
    /\ pending' = Tail(pending)
    /\ log' = Append(log, LogEntry("diagnostic", Head(pending), emitter, FALSE))
    /\ UNCHANGED <<ignore_path_set, pc, call, policy>>
    /\ UNCHANGED elsewhere

\* The for loop of emit_diagnostics is exhausted: the call returns.
emit_diagnostics_return ==
    /\ pc = "emitting"
    /\ pending = <<>>
    /\ pc' = "idle"
    /\ call' = NoCall
    /\ UNCHANGED <<sess, ignore_path_set, pending, policy, log>>
    /\ UNCHANGED elsewhere

\* Variant: the reset checks can_reset itself and does nothing without it.
reset_errors_Guarded ==
    /\ pc = "idle"
    /\ Len(log) < MaxOps
    /\ err_count' = IF can_reset THEN 0 ELSE err_count
    /\ log' = Append(log, LogEntry("reset_errors", NoDiag, emitter, can_reset_errors))
    /\ UNCHANGED <<emitter, has_non_ignorable_parser_errors, can_reset, sink,
                   ignore_path_set, pc, pending, call, policy>>
    /\ UNCHANGED elsewhere

\* Variant: the reset also puts the can-reset flag back to its initial value.
reset_errors_ClearsFlag ==
    /\ pc = "idle"
    /\ Len(log) < MaxOps
    /\ err_count' = 0
    /\ can_reset' = FALSE
    /\ log' = Append(log, LogEntry("reset_errors", NoDiag, emitter, can_reset_errors))
    /\ UNCHANGED <<emitter, has_non_ignorable_parser_errors, sink,
                   ignore_path_set, pc, pending, call, policy>>
    /\ UNCHANGED elsewhere

\* ParseSess::reset_errors: Handler::reset_err_count. The log records whether
\* the caller had can_reset_errors() in its favour.
reset_errors ==
    /\ pc = "idle"
    /\ Len(log) < MaxOps
    /\ Store(Handler_reset_err_count(State))
    /\ log' = Append(log, LogEntry("reset_errors", NoDiag, emitter, can_reset_errors))
    /\ UNCHANGED <<ignore_path_set, pc, pending, call, policy>>
    /\ UNCHANGED elsewhere

\* Variant: the session is rebuilt around a silent handler with an empty
\* ignore set.
set_silent_emitter_Rebuilt ==
    /\ pc = "idle"
    /\ Len(log) < MaxOps
    /\ emitter' = Silence
    /\ err_count' = 0
    /\ ignore_path_set' = {}
    /\ log' = Append(log, LogEntry("set_silent_emitter", NoDiag, emitter, can_reset_errors))
    /\ UNCHANGED <<has_non_ignorable_parser_errors, can_reset, sink,
                   pc, pending, call, policy>>
    /\ UNCHANGED elsewhere

\* Variant: the emitter is swapped inside the existing handler, which keeps
\* its error count.
set_silent_emitter_KeepsCount ==
    /\ pc = "idle"
    /\ Len(log) < MaxOps
    /\ emitter' = Silence
    /\ log' = Append(log, LogEntry("set_silent_emitter", NoDiag, emitter, can_reset_errors))
    /\ UNCHANGED <<has_non_ignorable_parser_errors, can_reset, err_count, sink,
                   ignore_path_set, pc, pending, call, policy>>
    /\ UNCHANGED elsewhere

\* ParseSess::set_silent_emitter: span_diagnostic becomes a new Handler around
\* a SilentEmitter. The new handler has counted nothing; the old emitter, with
\* its has_non_ignorable_parser_errors and its handle on can_reset, is dropped.
\* The log records can_reset_errors() at the call.
set_silent_emitter ==
    /\ pc = "idle"
    /\ Len(log) < MaxOps
    /\ Store(silent_handler(State))
    /\ log' = Append(log, LogEntry("set_silent_emitter", NoDiag, emitter, can_reset_errors))
    /\ UNCHANGED <<ignore_path_set, pc, pending, call, policy>>
    /\ UNCHANGED elsewhere

\* A caller asks ignore_file(path); the log records the answer.
IgnoreFile(path) ==
    /\ pc = "idle"
    /\ Len(log) < MaxOps
    /\ log' = Append(log, LogEntry("ignore_file", [loc |-> path, level |-> "none"],
                                   emitter, ignore_file(path)))
    /\ UNCHANGED <<sess, ignore_path_set, pc, pending, call, policy>>
    /\ UNCHANGED elsewhere

Batches == UNION {[1..n -> Diagnostic] : n \in 0..MaxBatch}

Next ==
    \/ \E d \in Diagnostic : Diagnose(d)
    \/ \E batch \in Batches : emit_diagnostics(batch)
    \/ emit_diagnostics_next
    \/ emit_diagnostics_return
    \/ reset_errors
    \/ set_silent_emitter
    \/ \E path \in FileNames : IgnoreFile(path)

Spec == Init /\ [][Next]_vars

\* ------------------------------------------------- two sessions side by side
\* Each file gets its own session: two ParseSess::new calls, then any
\* interleaving of operations on the two.
SessionIds == {1, 2}

\* ParseSess::new as a value: fresh Rc's for the ignore set and the flag, a
\* fresh handler.
ParseSess_new(error_emission, set) ==
    [emitter |-> error_emission,
     ignore_path_set |-> set,
     has_non_ignorable_parser_errors |-> FALSE,
     can_reset |-> FALSE,
     err_count |-> 0,
     sink |-> <<>>]

\* Specification SpecTwo does not use the single session of Spec.
NoSingle ==
    /\ policy = Silence
    /\ emitter = Silence
    /\ ignore_path_set = {}
    /\ has_non_ignorable_parser_errors = FALSE
    /\ can_reset = FALSE
    /\ err_count = 0
    /\ sink = <<>>
    /\ pc = "idle"
    /\ pending = <<>>
    /\ call = NoCall
    /\ log = <<>>

InitTwo ==
    /\ NoSingle
    /\ sessions \in {[id \in SessionIds |-> ParseSess_new(em[id], set[id])] :
                        em \in [SessionIds -> ErrorEmission],
                        set \in [SessionIds -> SUBSET Patterns]}
    /\ actor = 0
    /\ pair_ops = 0
    /\ NoConfigRun

\* Variant: the can-reset flag is one cell shared by every session (a static
\* instead of an Rc made by ParseSess::new).
TwoDiagnose_SharedFlag(id, d) ==
    /\ pair_ops < MaxPairOps
    /\ LET st == Handler_emit_diagnostic(sessions[id], d)
       IN  sessions' = [t \in SessionIds |->
                           IF t = id THEN st
                           ELSE [sessions[t] EXCEPT !.can_reset = st.can_reset]]
    /\ actor' = id
    /\ pair_ops' = pair_ops + 1
    /\ UNCHANGED <<oneVars, cfgVars>>

\* A diagnostic reported through session id.
TwoDiagnose(id, d) ==
    /\ pair_ops < MaxPairOps
    /\ sessions' = [sessions EXCEPT ![id] = Handler_emit_diagnostic(@, d)]
    /\ actor' = id
    /\ pair_ops' = pair_ops + 1
    /\ UNCHANGED <<oneVars, cfgVars>>

\* reset_errors() on session id.
TwoResetErrors(id) ==
    /\ pair_ops < MaxPairOps
    /\ sessions' = [sessions EXCEPT ![id] = Handler_reset_err_count(@)]
    /\ actor' = id
    /\ pair_ops' = pair_ops + 1
    /\ UNCHANGED <<oneVars, cfgVars>>

\* set_silent_emitter() on session id.
TwoSetSilentEmitter(id) ==
    /\ pair_ops < MaxPairOps
    /\ sessions' = [sessions EXCEPT ![id] = silent_handler(@)]
    /\ actor' = id
    /\ pair_ops' = pair_ops + 1
    /\ UNCHANGED <<oneVars, cfgVars>>

NextTwo ==
    \/ \E id \in SessionIds, d \in Diagnostic : TwoDiagnose(id, d)
    \/ \E id \in SessionIds : TwoResetErrors(id)
    \/ \E id \in SessionIds : TwoSetSilentEmitter(id)

SpecTwo == InitTwo /\ [][NextTwo]_vars

\* ------------------------------------------------------------ configuration
\* ConfigDoc
Doc == "Doc"
NoDoc == "NoDoc"

\* The create_config! table: one option of each kind of type, in declaration
\* order. The macro treats every row alike.
ConfigOptions ==
    << [doc |-> Doc, name |-> "verbose", ty |-> "bool", def |-> FALSE,
        dstring |-> <<"Use verbose output">>],
       [doc |-> Doc, name |-> "max_width", ty |-> "usize", def |-> 100,
        dstring |-> <<"Maximum width of each line">>],
       [doc |-> Doc, name |-> "fn_args_density", ty |-> "Density", def |-> "Tall",
        dstring |-> <<"Argument density in functions">>] >>

OptionNames == {ConfigOptions[i].name : i \in DOMAIN ConfigOptions}
Entry(name) == CHOOSE e \in {ConfigOptions[i] : i \in DOMAIN ConfigOptions} : e.name = name

\* configuration_option_enum! { Density: ... }
Density == {"Compressed", "Tall", "CompressedIfEmpty", "Vertical"}

\* lists::ListTactic
ListTactic == {"Vertical", "Horizontal", "HorizontalVertical", "Mixed"}

\* Variant: CompressedIfEmpty shares the arm of Compressed.
to_list_tactic_Regrouped(density) ==
    CASE density \in {"Compressed", "CompressedIfEmpty"} -> "Mixed"
      [] density = "Tall" -> "HorizontalVertical"
      [] density = "Vertical" -> "Vertical"

\* Density::to_list_tactic
to_list_tactic(density) ==
    CASE density = "Compressed" -> "Mixed"
      [] density \in {"Tall", "CompressedIfEmpty"} -> "HorizontalVertical"
      [] density = "Vertical" -> "Vertical"

\* Strings are sequences of characters. stringify!($x) of the Density variants:
VariantName(variant) ==
    CASE variant = "Compressed" -> <<"C", "o", "m", "p", "r", "e", "s", "s", "e", "d">>
      [] variant = "Tall" -> <<"T", "a", "l", "l">>
      [] variant = "CompressedIfEmpty" -> <<"C", "o", "m", "p", "r", "e", "s", "s", "e", "d", "I", "f", "E", "m", "p", "t", "y">>
      [] variant = "Vertical" -> <<"V", "e", "r", "t", "i", "c", "a", "l">>

\* Option<T>: <<>> is None, <<v>> is Some(v).
None == <<>>
Some(v) == <<v>>
IsSome(o) == Len(o) > 0

Digits == {"0", "1", "2", "3", "4", "5", "6", "7", "8", "9"}
DigitValue(c) ==
    CASE c = "0" -> 0 [] c = "1" -> 1 [] c = "2" -> 2 [] c = "3" -> 3 [] c = "4" -> 4
      [] c = "5" -> 5 [] c = "6" -> 6 [] c = "7" -> 7 [] c = "8" -> 8 [] c = "9" -> 9

RECURSIVE DecimalValue(_)
DecimalValue(s) ==
    IF s = <<>> THEN 0
    ELSE 10 * DecimalValue(SubSeq(s, 1, Len(s) - 1)) + DigitValue(s[Len(s)])

\* <bool as ConfigType>::parse: str::parse::<bool>, exactly "true" or "false".
parse_bool(s) ==
    IF s = <<"t", "r", "u", "e">> THEN Some(TRUE)
    ELSE IF s = <<"f", "a", "l", "s", "e">> THEN Some(FALSE)
    ELSE None

\* <usize as ConfigType>::parse: str::parse::<usize>, an optional "+" and then
\* one or more decimal digits. (The strings of the model are too short to
\* overflow a usize.)
parse_usize(s) ==
    LET body == IF s # <<>> /\ s[1] = "+" THEN Tail(s) ELSE s
    IN  IF body = <<>> \/ \E i \in 1..Len(body) : body[i] \notin Digits
        THEN None
        ELSE Some(DecimalValue(body))

\* ConfigType::parse of an enum made by configuration_option_enum!: the
\* variant whose name is the string, exactly and case-sensitively.
parse_enum(variants, s) ==
    IF \E v \in variants : VariantName(v) = s
    THEN Some(CHOOSE v \in variants : VariantName(v) = s)
    ELSE None

\* <$ty>::parse(val)
ConfigType_parse(ty, s) ==
    CASE ty = "bool" -> parse_bool(s)
      [] ty = "usize" -> parse_usize(s)
      [] ty = "Density" -> parse_enum(Density, s)

\* ConfigType::doc_hint: "<boolean>", "<unsigned integer>", and for an enum the
\* list of its variants.
doc_hint(ty) ==
    CASE ty = "bool" -> <<"<boolean>">>
      [] ty = "usize" -> <<"<unsigned integer>">>
      [] ty = "Density" -> <<"Compressed", "Tall", "CompressedIfEmpty", "Vertical">>

\* impl Default for Config
Config_default == [name \in OptionNames |-> Entry(name).def]

\* Config::fill_from_parsed_config: one `if let Some(val) = parsed.$i` per
\* option, in declaration order.
RECURSIVE fill_from(_, _, _)
fill_from(self, parsed_config, i) ==
    IF i > Len(ConfigOptions) THEN self
    ELSE LET name == ConfigOptions[i].name
         IN  fill_from(IF IsSome(parsed_config[name])
                       THEN [self EXCEPT ![name] = parsed_config[name][1]]
                       ELSE self,
                       parsed_config, i + 1)

\* Variant: the parsed values are dropped and the receiver returned as it is.
fill_from_parsed_config_Dropped(self, parsed_config) == self

fill_from_parsed_config(self, parsed_config) == fill_from(self, parsed_config, 1)

\* TOML values of a document.
TBoolean(b) == [kind |-> "Boolean", b |-> b, n |-> 0, s |-> ""]
TInteger(n) == [kind |-> "Integer", b |-> FALSE, n |-> n, s |-> ""]
TString(s) == [kind |-> "String", b |-> FALSE, n |-> 0, s |-> s]

\* Decoding one field of ParsedConfig, an Option<$ty>: an absent key gives
\* None, a value of the field's kind gives Some, any other value fails.
decode_field(ty, table, key) ==
    IF key \notin DOMAIN table THEN [ok |-> TRUE, val |-> None]
    ELSE LET v == table[key]
         IN  CASE ty = "bool" ->
                    IF v.kind = "Boolean" THEN [ok |-> TRUE, val |-> Some(v.b)]
                    ELSE [ok |-> FALSE, val |-> None]
               [] ty = "usize" ->
                    IF v.kind = "Integer" /\ v.n >= 0 THEN [ok |-> TRUE, val |-> Some(v.n)]
                    ELSE [ok |-> FALSE, val |-> None]
               [] ty = "Density" ->
                    IF v.kind = "String" /\ v.s \in Density THEN [ok |-> TRUE, val |-> Some(v.s)]
                    ELSE [ok |-> FALSE, val |-> None]

\* toml::decode into ParsedConfig (derive(RustcDecodable)): the declared
\* fields are read by name; the struct has no place for any other key.
toml_decode(table) ==
    LET fields == [name \in OptionNames |-> decode_field(Entry(name).ty, table, name)]
    IN  IF \A name \in OptionNames : fields[name].ok
        THEN Some([name \in OptionNames |-> fields[name].val])
        ELSE None

\* Config::from_toml as a value: the Config, or the panic.
from_toml_result(doc) ==
    IF ~doc.wellformed
    THEN [panic |-> "Could not parse TOML", parsed |-> <<>>, config |-> <<>>]
    ELSE LET decoded == toml_decode(doc.table)
         IN  IF IsSome(decoded)
             THEN [panic |-> "", parsed |-> decoded[1],
                   config |-> fill_from_parsed_config(Config_default, decoded[1])]
             ELSE [panic |-> "Decoding config file failed", parsed |-> <<>>, config |-> <<>>]

\* Variant: a value that does not parse leaves the option's default behind
\* (unwrap_or) before the failure is reported.
override_value_result_Clobbers(self, key, val) ==
    IF key \in OptionNames
    THEN LET r == ConfigType_parse(Entry(key).ty, val)
         IN  IF IsSome(r)
             THEN [panic |-> "", config |-> [self EXCEPT ![key] = r[1]]]
             ELSE [panic |-> "Failed to parse override",
                   config |-> [self EXCEPT ![key] = Entry(key).def]]
    ELSE [panic |-> "Unknown config key in override", config |-> self]

\* Variant: the override is applied to a fresh default Config.
override_value_result_FromDefault(self, key, val) ==
    IF key \in OptionNames
    THEN LET r == ConfigType_parse(Entry(key).ty, val)
         IN  IF IsSome(r)
             THEN [panic |-> "", config |-> [Config_default EXCEPT ![key] = r[1]]]
             ELSE [panic |-> "Failed to parse override", config |-> self]
    ELSE [panic |-> "Unknown config key in override", config |-> self]

\* Variant: assigning an option other than verbose also turns verbose on.
override_value_result_Coupled(self, key, val) ==
    IF key \in OptionNames
    THEN LET r == ConfigType_parse(Entry(key).ty, val)
         IN  IF IsSome(r)
             THEN [panic |-> "",
                   config |-> [self EXCEPT ![key] = r[1],
                                           !["verbose"] = IF key = "verbose" THEN r[1]
                                                          ELSE TRUE]]
             ELSE [panic |-> "Failed to parse override", config |-> self]
    ELSE [panic |-> "Unknown config key in override", config |-> self]

\* Config::override_value as a value: the Config after the call, and the
\* panic if there was one.
override_value_result(self, key, val) ==
    IF key \in OptionNames
    THEN LET r == ConfigType_parse(Entry(key).ty, val)
         IN  IF IsSome(r)
             THEN [panic |-> "", config |-> [self EXCEPT ![key] = r[1]]]
             ELSE [panic |-> "Failed to parse override", config |-> self]
    ELSE [panic |-> "Unknown config key in override", config |-> self]

\* ---- print_docs
\* stringify!($i).len()
NameLength(name) ==
    CASE name = "verbose" -> 7
      [] name = "max_width" -> 9
      [] name = "fn_args_density" -> 15

DigitChar(n) ==
    CASE n = 0 -> "0" [] n = 1 -> "1" [] n = 2 -> "2" [] n = 3 -> "3" [] n = 4 -> "4"
      [] n = 5 -> "5" [] n = 6 -> "6" [] n = 7 -> "7" [] n = 8 -> "8" [] n = 9 -> "9"

RECURSIVE DecimalString(_)
DecimalString(n) ==
    IF n < 10 THEN <<DigitChar(n)>>
    ELSE Append(DecimalString(n \div 10), DigitChar(n % 10))

\* format!("{:?}", $def)
DebugFormat(ty, value) ==
    CASE ty = "bool" -> IF value THEN <<"t", "r", "u", "e">> ELSE <<"f", "a", "l", "s", "e">>
      [] ty = "usize" -> DecimalString(value)
      [] ty = "Density" -> VariantName(value)

\* let max = cmp::max(max, stringify!($i).len()+1) over every row.
MaxNameWidth(table) ==
    LET widths == {NameLength(table[i].name) + 1 : i \in DOMAIN table} \cup {0}
    IN  CHOOSE w \in widths : \A v \in widths : v <= w

\* The lines one row contributes: nothing when it is not marked Doc, else the
\* option line (the name right-aligned by `pad` spaces, the hint, the
\* default), one line per description string, and an empty line.
HeaderLine ==
    [kind |-> "header", pad |-> 0, name |-> "", hint |-> <<>>, default |-> <<>>,
     text |-> "Configuration Options:"]
OptionLine(row, max) ==
    [kind |-> "option", pad |-> (max - 1) - NameLength(row.name), name |-> row.name,
     hint |-> doc_hint(row.ty), default |-> DebugFormat(row.ty, row.def), text |-> ""]
DescriptionLine(text, max) ==
    [kind |-> "description", pad |-> max, name |-> "", hint |-> <<>>, default |-> <<>>,
     text |-> text]
EmptyLine ==
    [kind |-> "empty", pad |-> 0, name |-> "", hint |-> <<>>, default |-> <<>>, text |-> ""]

RowLines(row, max) ==
    <<OptionLine(row, max)>>
        \o [j \in 1..Len(row.dstring) |-> DescriptionLine(row.dstring[j], max)]
        \o <<EmptyLine>>

\* Variant: the $doc marker of a row is not looked at.
RECURSIVE print_rows_Unmarked(_, _, _)
print_rows_Unmarked(table, i, max) ==
    IF i > Len(table) THEN <<>>
    ELSE RowLines(table[i], max) \o print_rows_Unmarked(table, i + 1, max)

print_docs_lines_Unmarked(table) ==
    <<HeaderLine>> \o print_rows_Unmarked(table, 1, MaxNameWidth(table))

\* Config::print_docs, for the table given to create_config!.
RECURSIVE print_rows(_, _, _)
print_rows(table, i, max) ==
    IF i > Len(table) THEN <<>>
    ELSE (IF table[i].doc = Doc THEN RowLines(table[i], max) ELSE <<>>)
             \o print_rows(table, i + 1, max)

print_docs_lines(table) ==
    <<HeaderLine>> \o print_rows(table, 1, MaxNameWidth(table))

\* ---- inputs
UnknownKey == "no_such_key"
Keys == OptionNames \cup {UnknownKey}

TomlValues == {TBoolean(TRUE), TInteger(80), TString("Vertical")}
Tables == UNION {[K -> TomlValues] : K \in {K \in SUBSET Keys : Cardinality(K) <= MaxDocKeys}}
Documents == {[wellformed |-> FALSE, table |-> <<>>]}
               \cup {[wellformed |-> TRUE, table |-> t] : t \in Tables}

ValueStrings == {<<"t", "r", "u", "e">>, <<"f", "a", "l", "s", "e">>, <<"8", "0">>, <<"V", "e", "r", "t", "i", "c", "a", "l">>, <<"b", "o", "g", "u", "s">>}

\* ---- the run
InitConfig ==
    /\ NoSingle
    /\ sessions = <<>>
    /\ actor = 0
    /\ pair_ops = 0
    /\ document \in Documents
    /\ parsed = <<>>
    /\ config = <<>>
    /\ cpc = "start"
    /\ panic_msg = ""
    /\ applied = <<>>
    /\ printed = <<>>
    /\ tactic = <<>>

\* Config::from_toml(document)
from_toml ==
    /\ cpc = "start"
    /\ LET r == from_toml_result(document)
       IN  /\ cpc' = IF r.panic = "" THEN "loaded" ELSE "panicked"
           /\ panic_msg' = r.panic
           /\ parsed' = r.parsed
           /\ config' = r.config
    /\ UNCHANGED <<document, applied, printed, tactic, oneVars, pairVars>>

\* config.override_value(key, val)
override_value(key, val) ==
    /\ cpc = "loaded"
    /\ Len(applied) < MaxOverrides
    /\ LET r == override_value_result(config, key, val)
       IN  /\ cpc' = IF r.panic = "" THEN "loaded" ELSE "panicked"
           /\ panic_msg' = r.panic
           /\ config' = r.config
           /\ applied' = Append(applied, [key |-> key, val |-> val, before |-> config,
                                          outcome |-> IF r.panic = "" THEN "returned"
                                                      ELSE "panicked"])
    /\ UNCHANGED <<document, parsed, printed, tactic, oneVars, pairVars>>

\* density.to_list_tactic() for some Density value.
ToListTactic(density) ==
    /\ cpc = "loaded"
    /\ tactic = <<>>
    /\ tactic' = <<density, to_list_tactic(density)>>
    /\ UNCHANGED <<document, parsed, config, cpc, panic_msg, applied, printed,
                   oneVars, pairVars>>

\* Config::print_docs()
print_docs ==
    /\ cpc # "panicked"
    /\ printed = <<>>
    /\ printed' = print_docs_lines(ConfigOptions)
    /\ UNCHANGED <<document, parsed, config, cpc, panic_msg, applied, tactic,
                   oneVars, pairVars>>

NextConfig ==
    \/ from_toml
    \/ print_docs
    \/ \E key \in Keys, val \in ValueStrings : override_value(key, val)
    \/ \E density \in Density : ToListTactic(density)

SpecConfig == InitConfig /\ [][NextConfig]_vars

\* ---------------------------------------------------- vocabulary of the claims
\* The diagnostic's primary location is in a file matching the ignore set.
InIgnoredFile(d) ==
    /\ d.loc \in Paths
    /\ \E p \in ignore_path_set : d.loc \in Globbed(p)

Last(s) == s[Len(s)]

\* Positions of the log holding a received diagnostic.
Received == {i \in 1..Len(log) : log[i].op = "diagnostic"}
\* ... received while the filtering emitter of the Default policy was active.
ReceivedByDefault == {i \in Received : log[i].emitter = Default}
\* ... and classified by it as non-ignorable.
NonIgnorable == {i \in ReceivedByDefault : ~InIgnoredFile(log[i].d)}

Resets == {i \in 1..Len(log) : log[i].op = "reset_errors"}
Swaps == {i \in 1..Len(log) : log[i].op = "set_silent_emitter"}

\* The session was constructed with the Default policy and still has its
\* filtering emitter.
DefaultSession == policy = Default /\ emitter = Default

\* ------------------------------------------------------------------ claims
\* C1: in a session constructed with the Default policy, once a non-ignorable
\* diagnostic has been received, can_reset_errors() is false after every
\* later operation (diagnostics, batches, reset_errors): a one-way latch.
C1_OneWayLatch ==
    (policy = Default /\ NonIgnorable # {}) => ~can_reset_errors

\* C1 witness: a non-ignorable diagnostic was followed by a diagnostic from an
\* ignored file and by a reset.
C1_Witness ==
    /\ policy = Default
    /\ Len(log) = 3
    /\ 1 \in NonIgnorable
    /\ 2 \in ReceivedByDefault /\ InIgnoredFile(log[2].d)
    /\ 3 \in Resets

\* C2: every diagnostic received by the Default emitter recomputes the flag:
\* after it, can_reset is true exactly when the diagnostic lies in an ignored
\* file and no earlier diagnostic was classified as non-ignorable.
C2_Recomputed ==
    (log # <<>> /\ Len(log) \in ReceivedByDefault) =>
        (can_reset <=> /\ InIgnoredFile(Last(log).d)
                       /\ NonIgnorable \ {Len(log)} = {})

\* C2 witness: a diagnostic from an ignored file arrives after a
\* non-ignorable one and leaves the flag false.
C2_Witness ==
    /\ Len(log) = 2
    /\ 1 \in NonIgnorable
    /\ 2 \in ReceivedByDefault /\ InIgnoredFile(log[2].d)
    /\ ~can_reset

\* C3 as stated: can_reset_errors() reports whether every error seen so far
\* originated in an ignored file.
C3_AsStated ==
    can_reset_errors <=>
        \A i \in Received : is_error(log[i].d) => InIgnoredFile(log[i].d)

\* C3 amended: can_reset_errors() is true exactly when the filtering emitter
\* of the Default policy has handled at least one diagnostic and every
\* diagnostic it has handled, error or warning, lies in an ignored file.
C3_Amended ==
    can_reset_errors <=> (ReceivedByDefault # {} /\ NonIgnorable = {})

\* C3 witness: two diagnostics from ignored files, then a swap to the silent
\* emitter; the flag is true.
C3_Witness ==
    /\ Len(log) = 3
    /\ {1, 2} \subseteq ReceivedByDefault
    /\ NonIgnorable = {}
    /\ 3 \in Swaps
    /\ can_reset_errors

\* C4: when reset_errors() is only called with can_reset_errors() true, a
\* Default session that has received a non-ignorable error has_errors().
C4_GuardedResetKeepsErrors ==
    ( /\ DefaultSession
      /\ \A i \in Resets : log[i].flag
      /\ \E i \in NonIgnorable : is_error(log[i].d) ) => has_errors

\* C4 witness: an ignored-file error was reset under the guard, then a
\* non-ignorable error arrived.
C4_Witness ==
    /\ DefaultSession
    /\ Len(log) = 3
    /\ 1 \in ReceivedByDefault /\ InIgnoredFile(log[1].d) /\ is_error(log[1].d)
    /\ 2 \in Resets /\ log[2].flag
    /\ 3 \in NonIgnorable /\ is_error(log[3].d)

\* C5 (scenario C): a Default session whose only diagnostics are errors in
\* ignored files, and whose errors have not been reset, has has_errors() and
\* can_reset_errors() both true.
C5_ScenarioC ==
    ( /\ DefaultSession
      /\ Received # {}
      /\ \A i \in Received : is_error(log[i].d) /\ InIgnoredFile(log[i].d)
      /\ Resets = {} ) => (has_errors /\ can_reset_errors)

\* C5 witness: two errors of an ignored file arrived through emit_diagnostics.
C5_Witness ==
    /\ DefaultSession
    /\ Received = {1, 2}
    /\ \A i \in Received : is_error(log[i].d) /\ InIgnoredFile(log[i].d)
    /\ pc = "emitting" /\ pending = <<>> /\ Len(call.batch) = 2

\* C6: under the Default policy the sink holds exactly the received
\* diagnostics that do not lie in an ignored file, in arrival order.
IsNonIgnorableEntry(e) ==
    e.op = "diagnostic" /\ e.emitter = Default /\ ~InIgnoredFile(e.d)
DiagnosticsOf(entries) == [i \in 1..Len(entries) |-> entries[i].d]

C6_SinkIsFilteredLog ==
    policy = Default => sink = DiagnosticsOf(SelectSeq(log, IsNonIgnorableEntry))

\* C6 witness: of three diagnostics the middle one, from an ignored file, is
\* missing from the sink and the other two are there in arrival order.
C6_Witness ==
    /\ DefaultSession
    /\ Received = {1, 2, 3}
    /\ NonIgnorable = {1, 3}
    /\ log[1].d # log[3].d
    /\ sink = <<log[1].d, log[3].d>>

\* C7: while the silent emitter is active (from construction or after
\* set_silent_emitter) no step writes to the sink.
C7_SilenceSwallows == [][emitter = Silence => sink' = sink]_vars

\* C7 witness: after set_silent_emitter a diagnostic outside every ignored
\* file arrived directly, another through emit_diagnostics, and the sink is
\* still empty.
C7_Witness ==
    /\ policy = Default /\ emitter = Silence
    /\ 1 \in Swaps
    /\ Received = {2, 3}
    /\ \A i \in Received : ~InIgnoredFile(log[i].d)
    /\ pc = "emitting" /\ Len(call.batch) = 1 /\ pending = <<>>
    /\ sink = <<>>

\* C8: when the loop of emit_diagnostics is exhausted, the session state is
\* the state reached by receiving the batch's diagnostics one by one, in
\* batch order, from the state at the call.
RECURSIVE OneByOne(_, _)
OneByOne(st, ds) ==
    IF ds = <<>> THEN st
    ELSE OneByOne(Handler_emit_diagnostic(st, Head(ds)), Tail(ds))

C8_BatchIsReplay ==
    (pc = "emitting" /\ pending = <<>>) => State = OneByOne(call.pre, call.batch)

\* C8 witness: a batch of two different non-ignorable diagnostics has been
\* replayed through the filtering emitter.
C8_Witness ==
    /\ pc = "emitting" /\ pending = <<>>
    /\ Len(call.batch) = 2
    /\ call.batch[1] # call.batch[2]
    /\ emitter = Default
    /\ \A i \in 1..2 : ~InIgnoredFile(call.batch[i])
    /\ Len(sink) = Len(call.pre.sink) + 2

\* C9: over diagnostics and reset_errors() calls, has_errors() is true
\* exactly when an error diagnostic has been received since the session was
\* created or since the last reset_errors().
C9_HasErrors ==
    Swaps = {} =>
        (has_errors <=> \E i \in Received :
                            /\ is_error(log[i].d)
                            /\ \A r \in Resets : r < i)

\* C9 witness: a reset with can_reset_errors() false cleared a real error.
C9_Witness ==
    /\ DefaultSession
    /\ Len(log) = 2
    /\ 1 \in NonIgnorable /\ is_error(log[1].d)
    /\ 2 \in Resets /\ ~log[2].flag
    /\ ~has_errors

\* C10: ignore_file(path) changes nothing of the session, the ignore set
\* never changes, and a path gets the same answer at every point.
Queries(l) == {i \in 1..Len(l) : l[i].op = "ignore_file"}

C10_IgnoreFilePure ==
    [][ /\ ignore_path_set' = ignore_path_set
        /\ (Len(log') > Len(log) /\ Len(log') \in Queries(log')) =>
               UNCHANGED <<sess, ignore_path_set>>
        /\ \A i, j \in Queries(log') :
               log'[i].d.loc = log'[j].d.loc => log'[i].flag = log'[j].flag
      ]_vars

\* C10 witness: the same path was asked about before and after the emitter
\* was swapped, and matched both times.
C10_Witness ==
    /\ Len(log) = 3
    /\ {1, 3} \subseteq Queries(log)
    /\ log[1].d.loc = log[3].d.loc
    /\ log[1].flag /\ log[3].flag
    /\ 2 \in Swaps

\* C18: right after set_silent_emitter() has_errors() is false, and from the
\* call on can_reset_errors() keeps the value it had at the call, whatever
\* diagnostics arrive.
C18_SilentEmitterDetaches ==
    /\ (log # <<>> /\ Len(log) \in Swaps) => ~has_errors
    /\ \A i \in Swaps : can_reset_errors = log[i].flag

\* C18 witness: the flag was true at the swap and a later error outside
\* every ignored file left it true.
C18_Witness ==
    /\ Len(log) = 3
    /\ 1 \in ReceivedByDefault /\ is_error(log[1].d)
    /\ 2 \in Swaps /\ log[2].flag
    /\ 3 \in Received /\ ~InIgnoredFile(log[3].d) /\ is_error(log[3].d)
    /\ can_reset_errors

\* C19: reset_errors() changes only the error counter; can_reset and the
\* emitter's has_non_ignorable_parser_errors are left alone, and a
\* non-ignorable diagnostic handled after it still makes can_reset false.
C19_ResetOnlyCounter ==
    [][ /\ (Len(log') > Len(log) /\ Len(log') \in {i \in 1..Len(log') : log'[i].op = "reset_errors"}) =>
              /\ err_count' = 0
              /\ UNCHANGED <<emitter, has_non_ignorable_parser_errors, can_reset,
                             sink, ignore_path_set>>
        /\ (Len(log') > Len(log) /\ Last(log').op = "diagnostic"
              /\ Last(log').emitter = Default /\ ~InIgnoredFile(Last(log').d)) =>
              ~can_reset'
      ]_vars

\* C19 witness: a resettable session was reset, stayed resettable, and the
\* next non-ignorable diagnostic made it non-resettable.
C19_Witness ==
    /\ Len(log) = 3
    /\ 1 \in ReceivedByDefault /\ InIgnoredFile(log[1].d)
    /\ 2 \in Resets /\ log[2].flag
    /\ 3 \in NonIgnorable
    /\ ~can_reset_errors

\* C20: a diagnostic without a primary span, or with one in a file that is
\* not a real path, is non-ignorable for the Default emitter whatever the
\* ignore set holds: it is written to the sink and can_reset becomes false.
C20_NoRealSpanNonIgnorable ==
    (log # <<>> /\ Len(log) \in ReceivedByDefault
       /\ Last(log).d.loc \in {NoSpan, NotReal}) =>
        /\ ~can_reset_errors
        /\ sink # <<>> /\ Last(sink) = Last(log).d
        /\ Len(sink) = Cardinality(NonIgnorable)

\* C20 witness: with a non-empty ignore set, after a diagnostic of an
\* ignored file, one without a span and one of a non-real file were emitted.
C20_Witness ==
    /\ ignore_path_set # {}
    /\ Len(log) = 3
    /\ {1, 2, 3} \subseteq ReceivedByDefault
    /\ InIgnoredFile(log[1].d)
    /\ log[2].d.loc = NoSpan /\ log[3].d.loc = NotReal
    /\ sink = <<log[2].d, log[3].d>>
    /\ ~can_reset_errors

\* C11: an operation on one session leaves the other session's
\* can_reset_errors(), has_errors() and ignore set as they were.
Observed(st) == <<st.can_reset, st.err_count > 0, st.ignore_path_set>>

C11_SessionsIndependent ==
    [][\A id \in SessionIds :
          id # actor' => Observed(sessions'[id]) = Observed(sessions[id])]_vars

\* C11 witness: session 1 holds a non-ignorable error while session 2, whose
\* only error came from an ignored file, is resettable and has been reset.
C11_Witness ==
    /\ pair_ops = 3
    /\ sessions[1].err_count > 0 /\ ~sessions[1].can_reset
    /\ sessions[1].sink # <<>>
    /\ sessions[2].err_count = 0 /\ sessions[2].can_reset
    /\ actor = 2

\* C12: fill_from_parsed_config merges the partial table onto the defaults:
\* right after loading, every option holds the partial table's value when
\* it has one and the static default otherwise, and no option is missing.
C12_FillMerges ==
    (cpc = "loaded" /\ applied = <<>>) =>
        /\ DOMAIN config = OptionNames
        /\ \A name \in OptionNames :
              config[name] = IF Len(parsed[name]) = 1 THEN parsed[name][1]
                             ELSE Entry(name).def

\* C12 witness: the document set max_width alone.
C12_Witness ==
    /\ cpc = "loaded" /\ applied = <<>>
    /\ parsed["max_width"] = <<80>> /\ parsed["verbose"] = <<>>
    /\ config["max_width"] = 80 /\ config["verbose"] = FALSE
    /\ config["fn_args_density"] = "Tall"

\* The string is a value of the option's declared kind: true or false for a
\* boolean, decimal digits for an unsigned integer, a variant's name for an enum.
Parseable(key, val) ==
    /\ key \in OptionNames
    /\ CASE Entry(key).ty = "bool" -> val \in {<<"t", "r", "u", "e">>, <<"f", "a", "l", "s", "e">>}
         [] Entry(key).ty = "usize" ->
               LET body == IF val # <<>> /\ val[1] = "+" THEN Tail(val) ELSE val
               IN  body # <<>> /\ \A i \in 1..Len(body) : body[i] \in Digits
         [] Entry(key).ty = "Density" -> val \in {VariantName(v) : v \in Density}

\* C13 as stated: an override_value call whose key is unknown or whose value
\* does not parse returns an InvalidOverride error value and changes nothing.
C13_AsStated ==
    \A i \in DOMAIN applied :
        ~Parseable(applied[i].key, applied[i].val) =>
            /\ applied[i].outcome = "returned Err(InvalidOverride)"
            /\ (i = Len(applied) => config = applied[i].before)

\* C13 amended: an override_value call panics exactly when its key is unknown
\* or its value does not parse as the declared kind of the key; the panic
\* comes before any assignment, so no option is changed.
C13_Amended ==
    \A i \in DOMAIN applied :
        /\ applied[i].outcome = (IF Parseable(applied[i].key, applied[i].val)
                                 THEN "returned" ELSE "panicked")
        /\ (applied[i].outcome = "panicked" =>
               /\ i = Len(applied)
               /\ cpc = "panicked"
               /\ panic_msg = (IF applied[i].key \in OptionNames
                               THEN "Failed to parse override"
                               ELSE "Unknown config key in override")
               /\ config = applied[i].before)

\* C13 witness: after max_width was set by the document, an override of
\* max_width that is no number panicked and left it as set.
C13_Witness ==
    /\ cpc = "panicked"
    /\ Len(applied) = 1
    /\ applied[1].key = "max_width" /\ applied[1].val = <<"b", "o", "g", "u", "s">>
    /\ config["max_width"] = 80

\* C14 as stated: loading a document that is malformed or holds a key that
\* is no declared option fails instead of giving a Config.
C14_AsStated ==
    (cpc # "start" /\ applied = <<>>
       /\ (~document.wellformed \/ UnknownKey \in DOMAIN document.table)) =>
        cpc = "panicked"

\* C15: the value of every option is that of the last valid override naming
\* it, else the document's value for it, else the static default.
ValidOverrides(name) ==
    {i \in DOMAIN applied : applied[i].key = name /\ applied[i].outcome = "returned"}
Max(S) == CHOOSE x \in S : \A y \in S : y <= x
DocumentValue(name) ==
    LET v == document.table[name]
    IN  CASE Entry(name).ty = "bool" -> v.b
          [] Entry(name).ty = "usize" -> v.n
          [] Entry(name).ty = "Density" -> v.s

C15_OverridesAfterFile ==
    (cpc = "loaded" \/ applied # <<>>) =>
        \A name \in OptionNames :
            config[name] =
                IF ValidOverrides(name) # {}
                THEN ConfigType_parse(Entry(name).ty,
                                      applied[Max(ValidOverrides(name))].val)[1]
                ELSE IF name \in DOMAIN document.table THEN DocumentValue(name)
                ELSE Entry(name).def

\* C15 witness: the document set max_width, verbose was overridden twice, and
\* the last override won while max_width kept the document's value.
C15_Witness ==
    /\ cpc = "loaded"
    /\ "max_width" \in DOMAIN document.table
    /\ Len(applied) = 2
    /\ applied[1].key = "verbose" /\ applied[1].val = <<"t", "r", "u", "e">>
    /\ applied[2].key = "verbose" /\ applied[2].val = <<"f", "a", "l", "s", "e">>
    /\ config["verbose"] = FALSE /\ config["max_width"] = 80
    /\ config["fn_args_density"] = "Tall"

\* C16: Density::to_list_tactic is the fixed table Tall -> HorizontalVertical,
\* Vertical -> Vertical, CompressedIfEmpty -> HorizontalVertical,
\* Compressed -> Mixed, whatever the configuration holds.
C16_DensityTactic ==
    tactic # <<>> =>
        /\ tactic[1] = "Tall" => tactic[2] = "HorizontalVertical"
        /\ tactic[1] = "Vertical" => tactic[2] = "Vertical"
        /\ tactic[1] = "CompressedIfEmpty" => tactic[2] = "HorizontalVertical"
        /\ tactic[1] = "Compressed" => tactic[2] = "Mixed"
        /\ tactic[2] \in ListTactic

\* C16 witness: CompressedIfEmpty was mapped while the configuration was not
\* the default one.
C16_Witness ==
    /\ tactic = <<"CompressedIfEmpty", "HorizontalVertical">>
    /\ config # Config_default

\* C17: print_docs() lists every option marked Doc exactly once, in
\* declaration order, with its name, hint, default and description lines,
\* leaves out the options marked NoDoc (for every marking of the table's
\* rows), and changes no configuration value.
IsOptionLine(line) == line.kind = "option"
IsDocRow(row) == row.doc = Doc
Marked(marks) == [i \in DOMAIN ConfigOptions |-> [ConfigOptions[i] EXCEPT !.doc = marks[i]]]

Lists(out, table) ==
    LET lines == SelectSeq(out, IsOptionLine)
        rows == SelectSeq(table, IsDocRow)
    IN  /\ Len(lines) = Len(rows)
        /\ \A i \in 1..Len(rows) :
              /\ lines[i].name = rows[i].name
              /\ lines[i].hint = doc_hint(rows[i].ty)
              /\ lines[i].default = DebugFormat(rows[i].ty, rows[i].def)
        /\ \A p \in 1..Len(out) :
              out[p].kind = "option" =>
                  LET row == Entry(out[p].name)
                      n == Len(row.dstring)
                  IN  /\ p + n + 1 <= Len(out)
                      /\ \A j \in 1..n : /\ out[p + j].kind = "description"
                                         /\ out[p + j].text = row.dstring[j]
                      /\ out[p + n + 1].kind = "empty"

C17_PrintDocs ==
    [][printed' # printed =>
          /\ Lists(printed', ConfigOptions)
          /\ \A marks \in [DOMAIN ConfigOptions -> {Doc, NoDoc}] :
                Lists(print_docs_lines(Marked(marks)), Marked(marks))
          /\ UNCHANGED <<document, parsed, config, cpc, panic_msg, applied>>
      ]_vars

\* C17 witness: the options were printed for a configuration changed by the
\* document and by an override, three option lines in declaration order.
C17_Witness ==
    /\ cpc = "loaded" /\ config # Config_default /\ applied # <<>>
    /\ Len(printed) = 10
    /\ printed[2].name = "verbose" /\ printed[5].name = "max_width"
    /\ printed[8].name = "fn_args_density"
    /\ printed[5].default = <<"1", "0", "0">>
    /\ printed[5].pad = 6

\* C21: an override_value call that returns changes only the option named by
\* its key and leaves every other option as it was; so the same override
\* applied twice gives the configuration that applying it once gives, and two
\* overrides of different keys give the same configuration in either order.
After(i) == IF i < Len(applied) THEN applied[i + 1].before ELSE config
Twice(self, key, val) ==
    override_value_result(override_value_result(self, key, val).config, key, val).config
InOrder(self, k1, v1, k2, v2) ==
    override_value_result(override_value_result(self, k1, v1).config, k2, v2).config

C21_OnlyTheNamedOption ==
    /\ \A i \in DOMAIN applied :
          applied[i].outcome = "returned" =>
              /\ \A name \in OptionNames \ {applied[i].key} :
                    After(i)[name] = applied[i].before[name]
              /\ Twice(applied[i].before, applied[i].key, applied[i].val) = After(i)
    /\ \A i \in DOMAIN applied :
          (/\ i < Len(applied)
           /\ applied[i].outcome = "returned" /\ applied[i + 1].outcome = "returned"
           /\ applied[i].key # applied[i + 1].key) =>
              After(i + 1) = InOrder(applied[i].before,
                                     applied[i + 1].key, applied[i + 1].val,
                                     applied[i].key, applied[i].val)
    /\ cpc = "loaded" =>
          \A k1 \in OptionNames, v1 \in ValueStrings :
              Parseable(k1, v1) =>
                  /\ Twice(config, k1, v1) = override_value_result(config, k1, v1).config
                  /\ \A k2 \in OptionNames \ {k1}, v2 \in ValueStrings :
                        Parseable(k2, v2) =>
                            InOrder(config, k1, v1, k2, v2) = InOrder(config, k2, v2, k1, v1)

\* C21 witness: after the document set verbose, max_width and then
\* fn_args_density were overridden, each to a value it did not have, and
\* verbose is still what the document set.
C21_Witness ==
    /\ cpc = "loaded"
    /\ Len(applied) = 2
    /\ applied[1].key = "max_width" /\ applied[2].key = "fn_args_density"
    /\ applied[1].before["max_width"] = 100 /\ config["max_width"] = 80
    /\ applied[2].before["fn_args_density"] = "Tall"
    /\ config["fn_args_density"] = "Vertical"
    /\ IsSome(parsed["verbose"]) /\ config["verbose"] = TRUE

====
